---------------------------- MODULE Spec2Model ----------------------------
(***************************************************************************)
(* Revenue summaries behind a cache-aside read path.                       *)
(*                                                                         *)
(*   backend/app/services/cache.py         get_revenue_summary             *)
(*   backend/app/services/reservations.py  calculate_total_revenue         *)
(*                                         calculate_monthly_revenue       *)
(*                                                                         *)
(* A request is one call of get_revenue_summary.  It is cut at its await   *)
(* points: the redis GET, the aggregation and the redis SETEX.  Several    *)
(* requests run as independent tasks over one redis and one database.      *)
(* Strings are TLA+ strings, so a cache key is the concatenation the       *)
(* f-string builds.  Money is an integer number of cents and is rendered   *)
(* the way str(Decimal) renders a NUMERIC(.., 2) value.                    *)
(*                                                                         *)
(* Spec is the service: requests, redis, the clock and a growing ledger.   *)
(* SpecAgg applies calculate_total_revenue, and SpecMonthly                *)
(* calculate_monthly_revenue, to every ledger over a fixed set of rows.    *)
(***************************************************************************)
EXTENDS Integers, Sequences, FiniteSets, TLC

(***************************************************************************)
(* Bounds of the model.                                                    *)
(***************************************************************************)
\* the clock advances in steps of TickSeconds up to MaxNow seconds
TickSeconds == 150
MaxNow == 310

\* the tasks that run get_revenue_summary
Requests == {"req1", "req2"}

\* tenant and property ids are arbitrary strings: prop-001 is a property of
\* two tenants, and ids may hold the colon the key uses as its delimiter
TenantIds == {"t1", "t1:p"}
PropertyIds == {"prop-001", "p:prop-001"}

\* the properties table: (id, tenant_id) rows
properties ==
    { [id |-> "prop-001", tenant_id |-> "t1"],
      [id |-> "prop-001", tenant_id |-> "t1:p"],
      [id |-> "p:prop-001", tenant_id |-> "t1"] }

\* the (property, tenant) pairs requests are made for: the rows of properties
CallArgs == { <<p.id, p.tenant_id>> : p \in properties }

\* the rows the ledger may come to hold; total_amount in cents
ReservationRows ==
    { [id |-> 1, property_id |-> "prop-001", tenant_id |-> "t1",
       total_amount |-> 25050] }

\* the ledgers calculate_total_revenue is applied to: two rows of one
\* property, a row of the same property id under another tenant, a row of
\* another property, and a row whose (property, tenant) is no row of properties
LedgerRows ==
    { [id |-> 1, property_id |-> "prop-001", tenant_id |-> "t1",
       total_amount |-> 25050],
      [id |-> 2, property_id |-> "prop-001", tenant_id |-> "t1",
       total_amount |-> 74950],
      [id |-> 3, property_id |-> "prop-001", tenant_id |-> "t1:p",
       total_amount |-> 7000],
      [id |-> 4, property_id |-> "p:prop-001", tenant_id |-> "t1",
       total_amount |-> 1005],
      [id |-> 5, property_id |-> "p:prop-001", tenant_id |-> "t1:p",
       total_amount |-> 999] }

\* the (property, tenant) pairs calculate_total_revenue is applied to
AggArgs == PropertyIds \X TenantIds

None == [none |-> TRUE]

\* p.timezone of the rows of properties; none of the three zones has
\* daylight saving time, so each is one offset from UTC, in hours
timezone(id, tenant_id) ==
    CASE id = "prop-001" /\ tenant_id = "t1" -> "Asia/Tokyo"
      [] id = "prop-001" /\ tenant_id = "t1:p" -> "America/Bogota"
      [] OTHER -> "UTC"

UtcOffset(tz) ==
    CASE tz = "Asia/Tokyo" -> 9
      [] tz = "America/Bogota" -> 0 - 5
      [] OTHER -> 0

\* the years calculate_monthly_revenue is asked for, and its month
\* arguments: 1..12 and one value on either side
Years == {2023, 2024, 2025}
MonthInputs == 0..13

\* the ledgers calculate_monthly_revenue is applied to; check_in_date is
\* the stored UTC value.  In Tokyo row 1 checks in at 2024-01-01 00:00 and
\* row 2 at 2024-01-31 23:00; in Bogota row 3 checks in at 2024-12-31
\* 23:00; row 4 checks in at 2024-12-01 00:00 UTC and row 5 at 2024-02-29
\* 23:00 UTC
MonthlyLedgerRows ==
    { [id |-> 1, property_id |-> "prop-001", tenant_id |-> "t1",
       total_amount |-> 10000,
       check_in_date |-> [year |-> 2023, month |-> 12, day |-> 31, hour |-> 15]],
      [id |-> 2, property_id |-> "prop-001", tenant_id |-> "t1",
       total_amount |-> 20050,
       check_in_date |-> [year |-> 2024, month |-> 1, day |-> 31, hour |-> 14]],
      [id |-> 3, property_id |-> "prop-001", tenant_id |-> "t1:p",
       total_amount |-> 4000,
       check_in_date |-> [year |-> 2025, month |-> 1, day |-> 1, hour |-> 4]],
      [id |-> 4, property_id |-> "p:prop-001", tenant_id |-> "t1",
       total_amount |-> 555,
       check_in_date |-> [year |-> 2024, month |-> 12, day |-> 1, hour |-> 0]],
      [id |-> 5, property_id |-> "p:prop-001", tenant_id |-> "t1",
       total_amount |-> 300,
       check_in_date |-> [year |-> 2024, month |-> 2, day |-> 29, hour |-> 23]] }

\* reservations.check_in_date is a timestamp (naive, UTC by convention) or a
\* timestamptz; the schema is not part of the sources
ColumnTypes == {"timestamp", "timestamptz"}

(***************************************************************************)
(* cache.py                                                                *)
(***************************************************************************)
\* the expiry given to setex
TTL == 300

\* the key without the tenant: the scheme the docstring says was replaced
CacheKey_NoTenant(property_id, tenant_id) == "revenue:" \o property_id

\* cache_key = f"revenue:{tenant_id}:{property_id}"
CacheKey(property_id, tenant_id) ==
    "revenue:" \o tenant_id \o ":" \o property_id

\* the keys redis may be asked for, under either scheme
AllKeys ==
    { CacheKey(p, t) : p \in PropertyIds, t \in TenantIds }
        \cup { CacheKey_NoTenant(p, t) : p \in PropertyIds, t \in TenantIds }

(***************************************************************************)
(* json.dumps / json.loads on the summary dict.  The text is the members   *)
(* in insertion order, each value a JSON string or a JSON number.          *)
(***************************************************************************)
JString(s) == [string |-> s]
JNumber(n) == [number |-> n]

\* the payload without its tenant_id member
json_dumps_NoTenant(d) ==
    << <<"property_id", JString(d.property_id)>>,
       <<"total", JString(d.total)>>,
       <<"currency", JString(d.currency)>>,
       <<"count", JNumber(d.count)>> >>

\* the payload with its total written to three decimals
json_dumps_ThreeDecimals(d) ==
    << <<"property_id", JString(d.property_id)>>,
       <<"tenant_id", JString(d.tenant_id)>>,
       <<"total", JString(d.total \o "0")>>,
       <<"currency", JString(d.currency)>>,
       <<"count", JNumber(d.count)>> >>

json_dumps(d) ==
    << <<"property_id", JString(d.property_id)>>,
       <<"tenant_id", JString(d.tenant_id)>>,
       <<"total", JString(d.total)>>,
       <<"currency", JString(d.currency)>>,
       <<"count", JNumber(d.count)>> >>

PyValue(j) == IF "string" \in DOMAIN j THEN j.string ELSE j.number

json_loads(text) ==
    [ k \in { text[i][1] : i \in 1..Len(text) } |->
        PyValue(text[CHOOSE i \in 1..Len(text) : text[i][1] = k][2]) ]

(***************************************************************************)
(* reservations.py                                                         *)
(***************************************************************************)
Digits == <<"0", "1", "2", "3", "4", "5", "6", "7", "8", "9">>

RECURSIVE IntStr(_)
IntStr(n) == IF n < 10 THEN Digits[n + 1]
             ELSE IntStr(n \div 10) \o Digits[(n % 10) + 1]

\* str(Decimal(str(total_revenue))) of a NUMERIC with two decimals
DecimalStr(cents) ==
    IntStr(cents \div 100) \o "." \o Digits[((cents % 100) \div 10) + 1]
                                  \o Digits[(cents % 10) + 1]

RECURSIVE SumAmounts(_)
SumAmounts(rows) ==
    IF rows = {} THEN 0
    ELSE LET x == CHOOSE x \in rows : TRUE
         IN  x.total_amount + SumAmounts(rows \ {x})

\* the query without its tenant predicate
MatchingRows_AnyTenant(ledger, property_id, tenant_id) ==
    { r \in ledger :
        /\ r.property_id = property_id
        /\ \E p \in properties : p.id = r.property_id /\ p.tenant_id = r.tenant_id }

\* FROM reservations r INNER JOIN properties p ON r.property_id = p.id AND
\* r.tenant_id = p.tenant_id WHERE r.property_id = :property_id AND
\* r.tenant_id = :tenant_id
MatchingRows(ledger, property_id, tenant_id) ==
    { r \in ledger :
        /\ r.property_id = property_id
        /\ r.tenant_id = tenant_id
        /\ \E p \in properties : p.id = r.property_id /\ p.tenant_id = r.tenant_id }

\* the dict built from the aggregate row, or the zero dict when no row
QueryResult(ledger, property_id, tenant_id) ==
    LET rows == MatchingRows(ledger, property_id, tenant_id)
    IN  IF rows # {}
        THEN [property_id |-> property_id, tenant_id |-> tenant_id,
              total |-> DecimalStr(SumAmounts(rows)), currency |-> "USD",
              count |-> Cardinality(rows)]
        ELSE [property_id |-> property_id, tenant_id |-> tenant_id,
              total |-> "0.00", currency |-> "USD", count |-> 0]

(***************************************************************************)
(* calculate_monthly_revenue.  A naive datetime is a record; datetimes are *)
(* ordered by the hours from the first moment of the first of Years.       *)
(***************************************************************************)
IsLeap(y) == (y % 4 = 0 /\ y % 100 # 0) \/ y % 400 = 0

DaysInMonth(y, m) ==
    CASE m \in {1, 3, 5, 7, 8, 10, 12} -> 31
      [] m \in {4, 6, 9, 11} -> 30
      [] OTHER -> IF IsLeap(y) THEN 29 ELSE 28

FirstYear == CHOOSE y \in Years : \A z \in Years : y <= z

RECURSIVE DaysBeforeMonth(_, _)
DaysBeforeMonth(y, m) ==
    IF m <= 1 THEN 0 ELSE DaysInMonth(y, m - 1) + DaysBeforeMonth(y, m - 1)

RECURSIVE DaysBeforeYear(_)
DaysBeforeYear(y) ==
    IF y <= FirstYear THEN 0
    ELSE DaysBeforeMonth(y - 1, 13) + DaysBeforeYear(y - 1)

LastYear == CHOOSE y \in Years : \A z \in Years : z <= y

\* the hours up to the first moment of each month
HoursBefore ==
    [ y \in FirstYear..(LastYear + 1), m \in 1..12 |->
        (DaysBeforeYear(y) + DaysBeforeMonth(y, m)) * 24 ]

Instant(dt) == HoursBefore[dt.year, dt.month] + ((dt.day - 1) * 24) + dt.hour

\* datetime(year, month, day)
datetime(year, month, day) ==
    [year |-> year, month |-> month, day |-> day, hour |-> 0]

\* start_date = datetime(year, month, 1)
start_date(year, month) == datetime(year, month, 1)

\* the end of December taken in the year of its start
end_date_SameYear(year, month) ==
    IF month < 12 THEN datetime(year, month + 1, 1)
    ELSE datetime(year, 1, 1)

\* if month < 12: end_date = datetime(year, month + 1, 1)
\* else: end_date = datetime(year + 1, 1, 1)
end_date(year, month) ==
    IF month < 12 THEN datetime(year, month + 1, 1)
    ELSE datetime(year + 1, 1, 1)

\* (r.check_in_date AT TIME ZONE 'UTC' AT TIME ZONE p.timezone), as it
\* compares with the naive bounds.  A timestamp is read as UTC and shown in
\* the zone of the property.  A timestamptz is shown in UTC and that wall
\* time is then read as local time of the property; the bounds compare
\* with it in the time zone of the session, here UTC.
LocalCheckIn(row, column) ==
    IF column = "timestamp"
    THEN Instant(row.check_in_date)
            + UtcOffset(timezone(row.property_id, row.tenant_id))
    ELSE Instant(row.check_in_date)
            - UtcOffset(timezone(row.property_id, row.tenant_id))

\* the range with its end included
MonthlyMatching_Closed(ledger, property_id, tenant_id, month, year, column) ==
    { r \in MatchingRows(ledger, property_id, tenant_id) :
        /\ LocalCheckIn(r, column) >= Instant(start_date(year, month))
        /\ LocalCheckIn(r, column) <= Instant(end_date(year, month)) }

\* the rows of the monthly query: those of MatchingRows with
\* (...) >= :start_date AND (...) < :end_date
MonthlyMatching(ledger, property_id, tenant_id, month, year, column) ==
    { r \in MatchingRows(ledger, property_id, tenant_id) :
        /\ LocalCheckIn(r, column) >= Instant(start_date(year, month))
        /\ LocalCheckIn(r, column) < Instant(end_date(year, month)) }

\* row = result.fetchone(): SUM(r.total_amount) is NULL over no rows.  A
\* value that may be NULL or None is a set of at most one element.
fetchone(rows) == [total |-> IF rows = {} THEN {} ELSE {SumAmounts(rows)}]

\* if row and row.total: return Decimal(str(row.total))
\* else: return Decimal('0')
MonthlyTotal(row) ==
    IF row.total # {} /\ row.total # {0} THEN row.total ELSE {0}

mock_data(property_id) ==
    CASE property_id = "prop-001" -> [total |-> "1000.00", count |-> 3]
      [] property_id = "prop-002" -> [total |-> "4975.50", count |-> 4]
      [] property_id = "prop-003" -> [total |-> "6100.50", count |-> 2]
      [] property_id = "prop-004" -> [total |-> "1776.50", count |-> 4]
      [] property_id = "prop-005" -> [total |-> "3256.00", count |-> 3]
      [] OTHER -> [total |-> "0.00", count |-> 0]

\* what sends calculate_total_revenue into its except branch
DataFaults == {"Database pool not available", "session.execute raised"}

\* the dict returned from the except branch
MockResult(property_id, tenant_id) ==
    [property_id |-> property_id, tenant_id |-> tenant_id,
     total |-> mock_data(property_id).total, currency |-> "USD",
     count |-> mock_data(property_id).count]

(***************************************************************************)
(* State                                                                   *)
(***************************************************************************)
VARIABLES
    now,              \* seconds on redis' clock
    cache,            \* redis: key -> None or [value, expires_at]
    reservations,     \* the reservations table
    pc,               \* where each request stands
    property_id,      \* get_revenue_summary's arguments
    tenant_id,
    cache_key,        \* its locals
    result,
    ret,              \* what it returned
    error,            \* what it raised
    path,             \* "hit" or "miss": how `if cached` went
    calls,            \* calculate_total_revenue calls made by the request
    writes,           \* setex calls made by the request
    dbFault,          \* the aggregation of the request hit a data-access fault
    lastWrite,        \* key -> None or the last setex: [result, at]
    startedAt,        \* when the request was made
    after,            \* the requests that had returned when it was made
    changedSince,     \* the ledger changed since the request was made
    check_in_type,    \* the type of the column reservations.check_in_date
    monthly           \* None or the last call of calculate_monthly_revenue

vars == << now, cache, reservations, pc, property_id,
           tenant_id, cache_key, result, ret, error, path, calls, writes,
           dbFault, lastWrite, startedAt, after, changedSince,
           check_in_type, monthly >>

monthlyVars == << check_in_type, monthly >>

history == << startedAt, after, changedSince >>

locals == << property_id, tenant_id, cache_key >>

\* the service as it starts: no request made, redis empty
InitService ==
    /\ now = 0
    /\ cache = [k \in AllKeys |-> None]
    /\ pc = [r \in Requests |-> "idle"]
    /\ property_id = [r \in Requests |-> ""]
    /\ tenant_id = [r \in Requests |-> ""]
    /\ cache_key = [r \in Requests |-> ""]
    /\ result = [r \in Requests |-> None]
    /\ ret = [r \in Requests |-> None]
    /\ error = [r \in Requests |-> ""]
    /\ path = [r \in Requests |-> ""]
    /\ calls = [r \in Requests |-> 0]
    /\ writes = [r \in Requests |-> 0]
    /\ dbFault = [r \in Requests |-> FALSE]
    /\ lastWrite = [k \in AllKeys |-> None]
    /\ startedAt = [r \in Requests |-> 0]
    /\ after = [r \in Requests |-> {}]
    /\ changedSince = [r \in Requests |-> FALSE]
    /\ monthly = None

\* check_in_date plays no part in get_revenue_summary
Init ==
    /\ InitService
    /\ reservations = {}
    /\ check_in_type = "timestamp"

(***************************************************************************)
(* redis                                                                   *)
(***************************************************************************)
\* an entry is gone once its expiry time is reached
Expired(entry, t) == entry # None /\ entry.expires_at <= t

\* GET key
redis_get(key) == IF Expired(cache[key], now) THEN None ELSE cache[key]

\* a write that keeps the entry already under the key (SET .. NX)
redis_setex_KeepOld(key, seconds, value) ==
    IF redis_get(key) # None THEN cache
    ELSE [cache EXCEPT ![key] = [value |-> value, expires_at |-> now + seconds]]

\* SETEX key seconds value
redis_setex(key, seconds, value) ==
    [cache EXCEPT ![key] = [value |-> value, expires_at |-> now + seconds]]

\* time passes; redis drops the entries whose time has come
Tick ==
    /\ now + TickSeconds <= MaxNow
    /\ now' = now + TickSeconds
    /\ cache' = [k \in AllKeys |->
                    IF Expired(cache[k], now + TickSeconds) THEN None
                    ELSE cache[k]]
    /\ UNCHANGED << monthlyVars, reservations, pc, locals, result, ret,
                    error, path, calls, writes, dbFault, lastWrite, history >>

(***************************************************************************)
(* The database                                                            *)
(***************************************************************************)
\* a reservation is booked
AddReservation(row) ==
    /\ row \notin reservations
    /\ reservations' = reservations \cup {row}
    /\ changedSince' = [r \in Requests |-> pc[r] # "idle"]
    /\ UNCHANGED << monthlyVars, now, cache, pc, locals, result, ret,
                    error, path, calls, writes, dbFault, lastWrite,
                    startedAt, after >>

(***************************************************************************)
(* get_revenue_summary, one action per outcome of each await: the GET,     *)
(* the aggregation, the SETEX                                              *)
(***************************************************************************)
\* the call: cache_key is built and the GET goes out
Enter(r, p, t) ==
    /\ pc[r] = "idle"
    /\ property_id' = [property_id EXCEPT ![r] = p]
    /\ tenant_id' = [tenant_id EXCEPT ![r] = t]
    /\ cache_key' = [cache_key EXCEPT ![r] = CacheKey(p, t)]
    /\ startedAt' = [startedAt EXCEPT ![r] = now]
    /\ after' = [after EXCEPT ![r] = { q \in Requests : pc[q] = "returned" }]
    /\ changedSince' = [changedSince EXCEPT ![r] = FALSE]

\* a hit that runs the aggregation all the same and returns its result
CacheHit_Recompute(r, p, t) ==
    /\ Enter(r, p, t)
    /\ redis_get(CacheKey(p, t)) # None
    /\ path' = [path EXCEPT ![r] = "hit"]
    /\ calls' = [calls EXCEPT ![r] = @ + 1]
    /\ ret' = [ret EXCEPT ![r] = QueryResult(reservations, p, t)]
    /\ pc' = [pc EXCEPT ![r] = "returned"]
    /\ UNCHANGED << monthlyVars, now, cache, reservations, result, error, writes, dbFault,
                    lastWrite >>

\* a hit that renews the expiry of the entry it read
CacheHit_Touch(r, p, t) ==
    /\ Enter(r, p, t)
    /\ redis_get(CacheKey(p, t)) # None
    /\ path' = [path EXCEPT ![r] = "hit"]
    /\ ret' = [ret EXCEPT ![r] = json_loads(redis_get(CacheKey(p, t)).value)]
    /\ cache' = redis_setex(CacheKey(p, t), TTL, redis_get(CacheKey(p, t)).value)
    /\ pc' = [pc EXCEPT ![r] = "returned"]
    /\ UNCHANGED << monthlyVars, now, reservations, result, error, calls, writes, dbFault,
                    lastWrite >>

\* cached = await redis_client.get(cache_key); if cached: return json.loads(cached)
CacheHit(r, p, t) ==
    /\ Enter(r, p, t)
    /\ redis_get(CacheKey(p, t)) # None
    /\ path' = [path EXCEPT ![r] = "hit"]
    /\ ret' = [ret EXCEPT ![r] = json_loads(redis_get(CacheKey(p, t)).value)]
    /\ pc' = [pc EXCEPT ![r] = "returned"]
    /\ UNCHANGED << monthlyVars, now, cache, reservations, result, error, calls, writes,
                    dbFault, lastWrite >>

\* cached is None: on to the aggregation
CacheMiss(r, p, t) ==
    /\ Enter(r, p, t)
    /\ redis_get(CacheKey(p, t)) = None
    /\ path' = [path EXCEPT ![r] = "miss"]
    /\ pc' = [pc EXCEPT ![r] = "calc"]
    /\ UNCHANGED << monthlyVars, now, cache, reservations, result, ret, error, calls,
                    writes, dbFault, lastWrite >>

\* redis_client.get raises: nothing in get_revenue_summary catches it
CacheGetFails(r, p, t) ==
    /\ Enter(r, p, t)
    /\ error' = [error EXCEPT ![r] = "redis.get"]
    /\ pc' = [pc EXCEPT ![r] = "raised"]
    /\ UNCHANGED << monthlyVars, now, cache, reservations, result, ret, path, calls,
                    writes, dbFault, lastWrite >>

\* result = await calculate_total_revenue(...): the session is there and
\* the query runs
CalculateFromLedger(r) ==
    /\ pc[r] = "calc"
    /\ result' = [result EXCEPT ![r] =
                    QueryResult(reservations, property_id[r], tenant_id[r])]
    /\ calls' = [calls EXCEPT ![r] = @ + 1]
    /\ pc' = [pc EXCEPT ![r] = "setex"]
    /\ UNCHANGED << monthlyVars, now, cache, reservations, locals, ret,
                    error, path, writes, dbFault, lastWrite, history >>

\* a data fault that ends the call with an error
CalculateFallback_Raise(r, fault) ==
    /\ pc[r] = "calc"
    /\ fault \in DataFaults
    /\ dbFault' = [dbFault EXCEPT ![r] = TRUE]
    /\ error' = [error EXCEPT ![r] = fault]
    /\ calls' = [calls EXCEPT ![r] = @ + 1]
    /\ pc' = [pc EXCEPT ![r] = "raised"]
    /\ UNCHANGED << monthlyVars, now, cache, reservations, locals, result, ret,
                    path, writes, lastWrite, history >>

\* db_pool.session_factory is unset, or session.execute raises: the
\* `except Exception` branch returns the placeholder dict
CalculateFallback(r, fault) ==
    /\ pc[r] = "calc"
    /\ fault \in DataFaults
    /\ dbFault' = [dbFault EXCEPT ![r] = TRUE]
    /\ result' = [result EXCEPT ![r] = MockResult(property_id[r], tenant_id[r])]
    /\ calls' = [calls EXCEPT ![r] = @ + 1]
    /\ pc' = [pc EXCEPT ![r] = "setex"]
    /\ UNCHANGED << monthlyVars, now, cache, reservations, locals, ret,
                    error, path, writes, lastWrite, history >>

\* a failed aggregation answered with a made-up summary that is cached
CalculateRaises_Synthesize(r) ==
    /\ pc[r] = "calc"
    /\ calls' = [calls EXCEPT ![r] = @ + 1]
    /\ error' = [error EXCEPT ![r] = "calculate_total_revenue"]
    /\ ret' = [ret EXCEPT ![r] = MockResult(property_id[r], tenant_id[r])]
    /\ cache' = redis_setex(cache_key[r], TTL,
                            json_dumps(MockResult(property_id[r], tenant_id[r])))
    /\ pc' = [pc EXCEPT ![r] = "returned"]
    /\ UNCHANGED << monthlyVars, now, reservations, locals, result, path,
                    writes, dbFault, lastWrite, history >>

\* calculate_total_revenue raises what `except Exception` does not catch
\* (the task is cancelled at one of its awaits): the call ends there
CalculateRaises(r) ==
    /\ pc[r] = "calc"
    /\ calls' = [calls EXCEPT ![r] = @ + 1]
    /\ error' = [error EXCEPT ![r] = "calculate_total_revenue"]
    /\ pc' = [pc EXCEPT ![r] = "raised"]
    /\ UNCHANGED << monthlyVars, now, cache, reservations, locals, result,
                    ret, path, writes, dbFault, lastWrite, history >>

\* a write that empties the rest of the cache
CacheSet_Flush(r) ==
    /\ pc[r] = "setex"
    /\ cache' = [k \in AllKeys |->
                    IF k = cache_key[r]
                    THEN [value |-> json_dumps(result[r]), expires_at |-> now + TTL]
                    ELSE None]
    /\ lastWrite' = [lastWrite EXCEPT ![cache_key[r]] =
                        [result |-> result[r], at |-> now]]
    /\ writes' = [writes EXCEPT ![r] = @ + 1]
    /\ ret' = [ret EXCEPT ![r] = result[r]]
    /\ pc' = [pc EXCEPT ![r] = "returned"]
    /\ UNCHANGED << monthlyVars, now, reservations, locals, result, error,
                    path, calls, dbFault, history >>

\* a write that leaves out the summaries without reservations
CacheSet_SkipZero(r) ==
    /\ pc[r] = "setex"
    /\ cache' = IF result[r].count = 0 THEN cache
                ELSE redis_setex(cache_key[r], TTL, json_dumps(result[r]))
    /\ lastWrite' = [lastWrite EXCEPT ![cache_key[r]] =
                        [result |-> result[r], at |-> now]]
    /\ writes' = [writes EXCEPT ![r] = @ + 1]
    /\ ret' = [ret EXCEPT ![r] = result[r]]
    /\ pc' = [pc EXCEPT ![r] = "returned"]
    /\ UNCHANGED << monthlyVars, now, reservations, locals, result, error,
                    path, calls, dbFault, history >>

\* a write that sets no expiry time the entry can reach
CacheSet_LongTTL(r) ==
    /\ pc[r] = "setex"
    /\ cache' = redis_setex(cache_key[r], TTL + TickSeconds, json_dumps(result[r]))
    /\ lastWrite' = [lastWrite EXCEPT ![cache_key[r]] =
                        [result |-> result[r], at |-> now]]
    /\ writes' = [writes EXCEPT ![r] = @ + 1]
    /\ ret' = [ret EXCEPT ![r] = result[r]]
    /\ pc' = [pc EXCEPT ![r] = "returned"]
    /\ UNCHANGED << monthlyVars, now, reservations, locals, result, error,
                    path, calls, dbFault, history >>

\* await redis_client.setex(cache_key, 300, json.dumps(result)); return result
CacheSet(r) ==
    /\ pc[r] = "setex"
    /\ cache' = redis_setex(cache_key[r], TTL, json_dumps(result[r]))
    /\ lastWrite' = [lastWrite EXCEPT ![cache_key[r]] =
                        [result |-> result[r], at |-> now]]
    /\ writes' = [writes EXCEPT ![r] = @ + 1]
    /\ ret' = [ret EXCEPT ![r] = result[r]]
    /\ pc' = [pc EXCEPT ![r] = "returned"]
    /\ UNCHANGED << monthlyVars, now, reservations, locals, result, error,
                    path, calls, dbFault, history >>

\* redis_client.setex raises: nothing in get_revenue_summary catches it
CacheSetFails(r) ==
    /\ pc[r] = "setex"
    /\ writes' = [writes EXCEPT ![r] = @ + 1]
    /\ error' = [error EXCEPT ![r] = "redis.setex"]
    /\ pc' = [pc EXCEPT ![r] = "raised"]
    /\ UNCHANGED << monthlyVars, now, cache, reservations, locals, result,
                    ret, path, calls, dbFault, lastWrite, history >>

\* the caller has its answer; the task is free for the next call
Finish(r) ==
    /\ pc[r] \in {"returned", "raised"}
    /\ pc' = [pc EXCEPT ![r] = "idle"]
    /\ property_id' = [property_id EXCEPT ![r] = ""]
    /\ tenant_id' = [tenant_id EXCEPT ![r] = ""]
    /\ cache_key' = [cache_key EXCEPT ![r] = ""]
    /\ result' = [result EXCEPT ![r] = None]
    /\ ret' = [ret EXCEPT ![r] = None]
    /\ error' = [error EXCEPT ![r] = ""]
    /\ path' = [path EXCEPT ![r] = ""]
    /\ calls' = [calls EXCEPT ![r] = 0]
    /\ writes' = [writes EXCEPT ![r] = 0]
    /\ dbFault' = [dbFault EXCEPT ![r] = FALSE]
    /\ startedAt' = [startedAt EXCEPT ![r] = 0]
    /\ after' = [q \in Requests |-> IF q = r THEN {} ELSE after[q] \ {r}]
    /\ changedSince' = [changedSince EXCEPT ![r] = FALSE]
    /\ UNCHANGED << monthlyVars, now, cache, reservations, lastWrite >>

Next ==
    \/ Tick
    \/ \E row \in ReservationRows : AddReservation(row)
    \/ \E r \in Requests, a \in CallArgs : CacheHit(r, a[1], a[2])
    \/ \E r \in Requests, a \in CallArgs : CacheMiss(r, a[1], a[2])
    \/ \E r \in Requests, a \in CallArgs : CacheGetFails(r, a[1], a[2])
    \/ \E r \in Requests : CalculateFromLedger(r)
    \/ \E r \in Requests, fault \in DataFaults : CalculateFallback(r, fault)
    \/ \E r \in Requests : CalculateRaises(r)
    \/ \E r \in Requests : CacheSet(r)
    \/ \E r \in Requests : CacheSetFails(r)
    \/ \E r \in Requests : Finish(r)

Spec == Init /\ [][Next]_vars

(***************************************************************************)
(* calculate_total_revenue applied to every ledger over LedgerRows: one    *)
(* task makes the calls, the ledger is the one drawn at the start          *)
(***************************************************************************)
InitAgg ==
    /\ InitService
    /\ reservations \in SUBSET LedgerRows
    /\ check_in_type = "timestamp"

NextAgg ==
    \/ \E a \in AggArgs : CacheHit("req1", a[1], a[2])
    \/ \E a \in AggArgs : CacheMiss("req1", a[1], a[2])
    \/ CalculateFromLedger("req1")
    \/ \E fault \in DataFaults : CalculateFallback("req1", fault)
    \/ CacheSet("req1")
    \/ Finish("req1")

SpecAgg == InitAgg /\ [][NextAgg]_vars

(***************************************************************************)
(* calculate_monthly_revenue applied to every ledger over                  *)
(* MonthlyLedgerRows, one call at a time                                   *)
(***************************************************************************)
serviceVars == << now, cache, pc, locals, result, ret, error, path, calls,
                  writes, dbFault, lastWrite, history >>

InitMonthly ==
    /\ InitService
    /\ reservations \in SUBSET MonthlyLedgerRows
    /\ check_in_type \in ColumnTypes

\* the session is there and the query runs
MonthlyFromLedger(p, t, m, y) ==
    /\ monthly = None
    /\ m \in 1..12
    /\ monthly' =
          [property_id |-> p, tenant_id |-> t, month |-> m, year |-> y,
           start_date |-> start_date(y, m), end_date |-> end_date(y, m),
           total |-> MonthlyTotal(fetchone(
                        MonthlyMatching(reservations, p, t, m, y, check_in_type))),
           fault |-> ""]
    /\ UNCHANGED << serviceVars, reservations, check_in_type >>

\* db_pool.session_factory is unset, or session.execute raises:
\* `except Exception` returns Decimal('0')
MonthlyFallback(p, t, m, y, fault) ==
    /\ monthly = None
    /\ m \in 1..12
    /\ fault \in DataFaults
    /\ monthly' =
          [property_id |-> p, tenant_id |-> t, month |-> m, year |-> y,
           start_date |-> start_date(y, m), end_date |-> end_date(y, m),
           total |-> {0}, fault |-> fault]
    /\ UNCHANGED << serviceVars, reservations, check_in_type >>

\* datetime(year, month, 1) raises ValueError for a month outside 1..12:
\* `except Exception` returns Decimal('0')
MonthlyBadMonth(p, t, m, y) ==
    /\ monthly = None
    /\ m \notin 1..12
    /\ monthly' =
          [property_id |-> p, tenant_id |-> t, month |-> m, year |-> y,
           start_date |-> None, end_date |-> None,
           total |-> {0}, fault |-> "ValueError"]
    /\ UNCHANGED << serviceVars, reservations, check_in_type >>

\* the caller has the total
MonthlyDone ==
    /\ monthly # None
    /\ monthly' = None
    /\ UNCHANGED << serviceVars, reservations, check_in_type >>

NextMonthly ==
    \/ \E a \in CallArgs, m \in MonthInputs, y \in Years :
            MonthlyFromLedger(a[1], a[2], m, y)
    \/ \E a \in CallArgs, m \in MonthInputs, y \in Years, fault \in DataFaults :
            MonthlyFallback(a[1], a[2], m, y, fault)
    \/ \E a \in CallArgs, m \in MonthInputs, y \in Years :
            MonthlyBadMonth(a[1], a[2], m, y)
    \/ MonthlyDone

SpecMonthly == InitMonthly /\ [][NextMonthly]_vars


(***************************************************************************)
(* Properties                                                              *)
(***************************************************************************)
Returned(r) == pc[r] = "returned"

\* the request is made and redis answers its GET
GetAnswered(r) == pc[r] = "idle" /\ pc'[r] \notin {"idle", "raised"}

SameCall(r1, r2) ==
    property_id[r1] = property_id[r2] /\ tenant_id[r1] = tenant_id[r2]

\* C1: whatever the tenant and property ids are, a summary returned by
\* get_revenue_summary(P, B) carries tenant_id B, never that of another
\* tenant.
C1_TenantIsolation ==
    \A r \in Requests : Returned(r) => ret[r].tenant_id = tenant_id[r]

\* C2: the key a request uses is "revenue:" + T + ":" + P, and for one
\* property id the keys of two different tenants differ.
C2_CacheKeyFormat ==
    /\ \A r \in Requests :
          pc[r] # "idle" =>
              cache_key[r] = "revenue:" \o tenant_id[r] \o ":" \o property_id[r]
    /\ \A r1, r2 \in Requests :
          (/\ pc[r1] # "idle" /\ pc[r2] # "idle"
           /\ property_id[r1] = property_id[r2]
           /\ tenant_id[r1] # tenant_id[r2]) => cache_key[r1] # cache_key[r2]

C2_Witness ==
    \E r1, r2 \in Requests :
        /\ pc[r1] # "idle" /\ pc[r2] # "idle"
        /\ property_id[r1] = property_id[r2]
        /\ tenant_id[r1] # tenant_id[r2]

\* C3: a request that finds an unexpired entry under its key returns the
\* deserialized stored value, has not called calculate_total_revenue and
\* writes nothing to the cache.
C3_HitReturnsStored ==
    [][ \A r \in Requests :
          (GetAnswered(r) /\ redis_get(cache_key'[r]) # None) =>
              /\ pc'[r] = "returned"
              /\ ret'[r] = json_loads(cache[cache_key'[r]].value)
              /\ calls'[r] = 0
              /\ writes'[r] = 0
              /\ cache' = cache ]_vars

C3_Witness ==
    \E r \in Requests :
        /\ Returned(r) /\ path[r] = "hit"
        /\ ret[r] = json_loads(cache[cache_key[r]].value)

\* C4: a request that misses calls calculate_total_revenue once for its own
\* (property, tenant), only then writes the serialized result under its key
\* with an expiry of 300 seconds, and only then returns that same result.
C4_MissComputesWritesReturns ==
    /\ [](\A r \in Requests :
            /\ pc[r] = "calc" => path[r] = "miss" /\ calls[r] = 0 /\ writes[r] = 0
            /\ pc[r] = "setex" => path[r] = "miss" /\ calls[r] = 1 /\ writes[r] = 0
            /\ (Returned(r) /\ path[r] = "miss") =>
                   /\ calls[r] = 1 /\ writes[r] = 1
                   /\ ret[r] = result[r]
                   /\ ret[r].property_id = property_id[r]
                   /\ ret[r].tenant_id = tenant_id[r])
    /\ [][ \A r \in Requests :
            /\ (GetAnswered(r) /\ redis_get(cache_key'[r]) = None)
                   => pc'[r] = "calc" /\ calls'[r] = 0
            /\ (pc[r] = "calc" /\ pc'[r] = "setex") =>
                   result'[r] \in
                       { QueryResult(reservations, property_id[r], tenant_id[r]),
                         MockResult(property_id[r], tenant_id[r]) }
            /\ (pc[r] = "setex" /\ pc'[r] = "returned") =>
                   /\ cache'[cache_key[r]] =
                          [value |-> json_dumps(result[r]),
                           expires_at |-> now + 300]
                   /\ ret'[r] = result[r] ]_vars

C4_Witness ==
    \E r \in Requests :
        /\ Returned(r) /\ path[r] = "miss" /\ calls[r] = 1 /\ writes[r] = 1
        /\ cache[cache_key[r]] # None
        /\ cache[cache_key[r]].expires_at = startedAt[r] + 300

\* the key of the request is the key of no other (property, tenant)
KeyUnshared(r) ==
    \A a \in CallArgs :
        CacheKey(a[1], a[2]) = cache_key[r] => a = <<property_id[r], tenant_id[r]>>

\* the summary is not the placeholder of the except branch
FromLedger(r) == ret[r] # MockResult(property_id[r], tenant_id[r])

\* C5 as stated: of two sequential calls for the same (P, T) made within 300
\* seconds of each other with no change of the ledger in between, both
\* return equal results and the second issues no aggregation query.  The
\* calls are taken where no fault and no shared key is involved.
C5_IdempotentWithin300 ==
    \A r1, r2 \in Requests :
        (/\ Returned(r1) /\ Returned(r2)
         /\ r1 \in after[r2]
         /\ SameCall(r1, r2)
         /\ startedAt[r2] - startedAt[r1] < 300
         /\ ~changedSince[r1]
         /\ KeyUnshared(r1) /\ FromLedger(r1) /\ FromLedger(r2))
        => (ret[r2] = ret[r1] /\ calls[r2] = 0)

\* C5 amended: for 300 seconds after a miss has stored its result under a
\* key, the entry is there and deserializes to that result, and a call that
\* reads the key in that time returns a result equal to it in every field
\* without an aggregation query.
C5_IdempotentAfterStore ==
    /\ [](\A k \in AllKeys :
            (lastWrite[k] # None /\ now < lastWrite[k].at + 300) =>
                /\ redis_get(k) # None
                /\ json_loads(redis_get(k).value) = lastWrite[k].result)
    /\ [][ \A r \in Requests :
            (/\ GetAnswered(r)
             /\ lastWrite[cache_key'[r]] # None
             /\ now < lastWrite[cache_key'[r]].at + 300) =>
                /\ pc'[r] = "returned"
                /\ ret'[r] = lastWrite[cache_key'[r]].result
                /\ calls'[r] = 0 ]_vars

C5_Witness ==
    \E r1, r2 \in Requests :
        /\ Returned(r1) /\ Returned(r2)
        /\ r1 \in after[r2]
        /\ SameCall(r1, r2)
        /\ path[r1] = "miss" /\ path[r2] = "hit"
        /\ startedAt[r2] > startedAt[r1]
        /\ changedSince[r1]
        /\ ret[r2] = ret[r1] /\ calls[r2] = 0

\* C6: no entry is readable 300 seconds after it was written, reads do not
\* move an entry's expiry, and a request that reads its key once the 300
\* seconds are over goes on to a new aggregation.
C6_TTLExpiry ==
    /\ [](\A k \in AllKeys :
            redis_get(k) # None =>
                lastWrite[k] # None /\ now < lastWrite[k].at + 300)
    /\ [][ /\ \A k \in AllKeys :
                (lastWrite'[k] = lastWrite[k] /\ cache[k] # None /\ cache'[k] # None)
                    => cache'[k] = cache[k]
           /\ \A r \in Requests :
                (/\ GetAnswered(r)
                 /\ lastWrite[cache_key'[r]] # None
                 /\ now >= lastWrite[cache_key'[r]].at + 300) =>
                    /\ pc'[r] = "calc"
                    /\ path'[r] = "miss"
                    /\ ret'[r] = None
           /\ \A r \in Requests :
                (pc[r] = "calc" /\ pc'[r] = "setex") => calls'[r] = calls[r] + 1
         ]_vars

C6_Witness ==
    \E r \in Requests :
        /\ pc[r] = "setex" /\ calls[r] = 1
        /\ lastWrite[cache_key[r]] # None
        /\ startedAt[r] >= lastWrite[cache_key[r]].at + 300
        /\ \E q \in Requests :
              /\ Returned(q) /\ path[q] = "hit"
              /\ cache_key[q] = cache_key[r]
              /\ startedAt[q] > lastWrite[cache_key[r]].at

\* C7: when setex fails during a miss, the request still returns the
\* result it computed.
C7_WriteFaultStillReturns ==
    \A r \in Requests :
        error[r] = "redis.setex" => (Returned(r) /\ ret[r] = result[r])

\* C8: when the redis GET fails, the request does not fail: it goes on as
\* after a miss.
C8_ReadFaultIsMiss ==
    \A r \in Requests :
        error[r] = "redis.get" =>
            (pc[r] \in {"calc", "setex", "returned"} /\ path[r] = "miss")

\* C9: a request whose aggregation hit a data-access fault fails with
\* AggregationFailed; it has no result to go on with.
C9_FaultIsNotSuccess ==
    \A r \in Requests :
        dbFault[r] =>
            (pc[r] = "raised" /\ error[r] = "AggregationFailed" /\ result[r] = None)

\* C10: when calculate_total_revenue raises, the request raises, returns
\* nothing and the cache is left as it was.
C10_CalcFailurePropagates ==
    /\ [](\A r \in Requests :
            error[r] = "calculate_total_revenue" =>
                pc[r] = "raised" /\ ret[r] = None /\ writes[r] = 0)
    /\ [][ \A r \in Requests :
            (pc[r] = "calc" /\ pc'[r] \notin {"calc", "setex"}) =>
                /\ pc'[r] = "raised"
                /\ error'[r] = "calculate_total_revenue"
                /\ cache' = cache ]_vars

C10_Witness ==
    \E r \in Requests :
        /\ pc[r] = "raised" /\ error[r] = "calculate_total_revenue"
        /\ path[r] = "miss" /\ redis_get(cache_key[r]) = None


(***************************************************************************)
(* The aggregate, stated from the ledger                                   *)
(***************************************************************************)
\* the reservations of property P under tenant T that have their row in
\* properties
ReservationsOf(P, T) ==
    { row \in reservations :
        /\ row.property_id = P
        /\ row.tenant_id = T
        /\ [id |-> P, tenant_id |-> T] \in properties }

\* the cents of the reservations with the given ids, added id by id
RECURSIVE CentsOfIds(_, _, _)
CentsOfIds(P, T, ids) ==
    IF ids = {} THEN 0
    ELSE LET i == CHOOSE i \in ids : \A j \in ids : j <= i
             own == { row \in ReservationsOf(P, T) : row.id = i }
         IN  (IF own = {} THEN 0 ELSE (CHOOSE row \in own : TRUE).total_amount)
                + CentsOfIds(P, T, ids \ {i})

LedgerCents(P, T) == CentsOfIds(P, T, { row.id : row \in reservations })

\* the decimal text of the sums the ledgers over LedgerRows have, written out
ExactText(cents) ==
    CASE cents = 0 -> "0.00"
      [] cents = 1005 -> "10.05"
      [] cents = 7000 -> "70.00"
      [] cents = 25050 -> "250.50"
      [] cents = 74950 -> "749.50"
      [] cents = 100000 -> "1000.00"
      [] OTHER -> "not a sum of this ledger"

\* C11: the summary calculate_total_revenue(P, T) returns carries
\* property_id P, tenant_id T and currency "USD"; when its query ran, count
\* is the number of reservations of (P, T) joined to the property of that
\* id and tenant and total is the exact decimal text of the sum of their
\* total_amount, so the rows of other tenants or properties add nothing.
C11_TotalRevenueAggregate ==
    \A r \in Requests :
        result[r] # None =>
            /\ result[r].property_id = property_id[r]
            /\ result[r].tenant_id = tenant_id[r]
            /\ result[r].currency = "USD"
            /\ ~dbFault[r] =>
                  /\ result[r].count =
                        Cardinality(ReservationsOf(property_id[r], tenant_id[r]))
                  /\ result[r].total =
                        ExactText(LedgerCents(property_id[r], tenant_id[r]))

\* two reservations of (prop-001, t1) are summed to 1000.00 while a
\* reservation of prop-001 under the other tenant is in the ledger
C11_Witness ==
    \E r \in Requests :
        /\ ~dbFault[r]
        /\ result[r] = [property_id |-> "prop-001", tenant_id |-> "t1",
                        total |-> "1000.00", currency |-> "USD", count |-> 2]
        /\ \E row \in reservations :
              row.property_id = "prop-001" /\ row.tenant_id = "t1:p"

\* the summary of a (property, tenant) without reservations
ZeroSummary(P, T) ==
    [property_id |-> P, tenant_id |-> T, total |-> "0.00",
     currency |-> "USD", count |-> 0]

\* C12: when the query runs and no reservation matches (P, T),
\* calculate_total_revenue ends without an error and its summary has total
\* "0.00" and count 0; get_revenue_summary stores that summary under the
\* key for 300 seconds and returns it, as it does any other summary.
C12_ZeroCase ==
    /\ [][\A r \in Requests :
            ( /\ pc[r] = "calc"
              /\ pc'[r] # "calc"
              /\ error'[r] = ""
              /\ ~dbFault'[r]
              /\ ReservationsOf(property_id[r], tenant_id[r]) = {} )
            => /\ pc'[r] = "setex"
               /\ result'[r] = ZeroSummary(property_id[r], tenant_id[r])]_vars
    /\ [][\A r \in Requests :
            ( /\ pc[r] = "setex"
              /\ pc'[r] = "returned"
              /\ result[r] = ZeroSummary(property_id[r], tenant_id[r]) )
            => /\ cache'[cache_key[r]] =
                    [value |-> json_dumps(result[r]), expires_at |-> now + 300]
               /\ ret'[r] = result[r]]_vars

\* the zero summary of (prop-001, t1:p) was stored and a later call got it
\* from the cache
C12_Witness ==
    \E r \in Requests :
        /\ Returned(r)
        /\ path[r] = "hit"
        /\ calls[r] = 0
        /\ ret[r] = [property_id |-> "prop-001", tenant_id |-> "t1:p",
                     total |-> "0.00", currency |-> "USD", count |-> 0]
        /\ lastWrite[cache_key[r]] # None
        /\ lastWrite[cache_key[r]].result = ret[r]

\* C13: requests that miss on one key are not serialised: each runs the
\* aggregation and each writes.  A write replaces whatever entry is under
\* the key, so the cache holds the value of the last write; each caller
\* returns the summary it computed itself, and when its query ran that
\* summary is the aggregate of the ledger as it stood at that step.
C13_ConcurrentMisses ==
    /\ [](\A k \in AllKeys :
            cache[k] # None =>
                /\ lastWrite[k] # None
                /\ cache[k].value = json_dumps(lastWrite[k].result)
                /\ cache[k].expires_at = lastWrite[k].at + TTL)
    /\ [](\A r \in Requests :
            (Returned(r) /\ path[r] = "miss") =>
                ret[r] = result[r] /\ calls[r] = 1 /\ writes[r] = 1)
    /\ [][\A r \in Requests :
            (pc[r] = "setex" /\ pc'[r] = "returned") =>
                /\ lastWrite'[cache_key[r]] = [result |-> result[r], at |-> now]
                /\ ret'[r] = result[r]]_vars
    /\ [][\A r \in Requests :
            (pc[r] = "calc" /\ pc'[r] = "setex" /\ ~dbFault'[r]) =>
                /\ result'[r].count =
                      Cardinality(ReservationsOf(property_id[r], tenant_id[r]))
                /\ result'[r].total =
                      ExactText(LedgerCents(property_id[r], tenant_id[r]))]_vars

\* two calls for one (property, tenant), neither returned before the other
\* was made, both missed, both ran the query and both wrote; the ledger
\* changed between the two queries, each returned its own summary and the
\* cache holds the one written last
C13_Witness ==
    \E r1, r2 \in Requests :
        /\ r1 # r2
        /\ SameCall(r1, r2)
        /\ Returned(r1) /\ Returned(r2)
        /\ path[r1] = "miss" /\ path[r2] = "miss"
        /\ ~dbFault[r1] /\ ~dbFault[r2]
        /\ calls[r1] = 1 /\ calls[r2] = 1
        /\ writes[r1] = 1 /\ writes[r2] = 1
        /\ r1 \notin after[r2] /\ r2 \notin after[r1]
        /\ ret[r1] # ret[r2]
        /\ lastWrite[cache_key[r1]].result = ret[r1]
        /\ cache[cache_key[r1]] # None
        /\ json_loads(cache[cache_key[r1]].value) = ret[r1]

(***************************************************************************)
(* Months, stated from the calendar                                        *)
(***************************************************************************)
AllMonths == (1..12) \X Years

\* the (month, year) whose days hold the hour h, from the first hour of its
\* first day to the last hour of its last day
CalendarMonthOf(h) ==
    CHOOSE ym \in AllMonths :
        /\ h >= Instant([year |-> ym[2], month |-> ym[1], day |-> 1, hour |-> 0])
        /\ h <= Instant([year |-> ym[2], month |-> ym[1],
                         day |-> DaysInMonth(ym[2], ym[1]), hour |-> 23])

\* the reservations of (P, T) whose local check-in is in the month
ReservationsIn(P, T, month, year) ==
    { row \in ReservationsOf(P, T) :
        CalendarMonthOf(LocalCheckIn(row, check_in_type)) = <<month, year>> }

\* the cents a monthly query over the ledger gives for each month, added up
RECURSIVE SumOverMonths(_, _, _)
SumOverMonths(P, T, months) ==
    IF months = {} THEN 0
    ELSE LET ym == CHOOSE ym \in months : TRUE
             total == MonthlyTotal(fetchone(MonthlyMatching(
                          reservations, P, T, ym[1], ym[2], check_in_type)))
         IN  (CHOOSE c \in total : TRUE) + SumOverMonths(P, T, months \ {ym})

PrevMonth(ym) == IF ym[1] = 1 THEN <<12, ym[2] - 1>> ELSE <<ym[1] - 1, ym[2]>>

NextMonth(ym) == IF ym[1] = 12 THEN <<1, ym[2] + 1>> ELSE <<ym[1] + 1, ym[2]>>

\* C16: for every month in 1..12 and every year, start_date is the first
\* moment of (year, month) and end_date the first moment of the following
\* month, (year + 1, 1) after month 12; start_date is strictly before
\* end_date, the two are the days of that month apart, and the end_date of
\* a month is the start_date of the next.  A call carries these bounds.
C16_MonthBounds ==
    /\ \A ym \in AllMonths :
          LET m == ym[1]
              y == ym[2]
          IN  /\ start_date(y, m) =
                    [year |-> y, month |-> m, day |-> 1, hour |-> 0]
              /\ end_date(y, m) =
                    [year |-> NextMonth(ym)[2], month |-> NextMonth(ym)[1],
                     day |-> 1, hour |-> 0]
              /\ m = 12 => end_date(y, m).year = y + 1 /\ end_date(y, m).month = 1
              /\ Instant(start_date(y, m)) < Instant(end_date(y, m))
              /\ Instant(end_date(y, m)) - Instant(start_date(y, m)) =
                    24 * DaysInMonth(y, m)
              /\ end_date(y, m) = start_date(NextMonth(ym)[2], NextMonth(ym)[1])
    /\ (monthly # None /\ monthly.month \in 1..12) =>
          /\ monthly.start_date = [year |-> monthly.year, month |-> monthly.month,
                                   day |-> 1, hour |-> 0]
          /\ Instant(monthly.start_date) < Instant(monthly.end_date)
          /\ Instant(monthly.end_date) - Instant(monthly.start_date) =
                24 * DaysInMonth(monthly.year, monthly.month)

\* a call for December: its range ends with the first moment of January of
\* the next year
C16_Witness ==
    /\ monthly # None
    /\ monthly.month = 12
    /\ monthly.start_date = [year |-> monthly.year, month |-> 12,
                             day |-> 1, hour |-> 0]
    /\ monthly.end_date = [year |-> monthly.year + 1, month |-> 1,
                           day |-> 1, hour |-> 0]

\* C17: the total calculate_monthly_revenue returns is never null: it is
\* the exact decimal zero when no reservation of the requested (property,
\* tenant) is in the month, and otherwise the exact decimal sum of the
\* total_amount of those that are.
C17_MonthlyTotalNeverNull ==
    monthly # None =>
        /\ monthly.total # {}
        /\ LET rows == ReservationsIn(monthly.property_id, monthly.tenant_id,
                                      monthly.month, monthly.year)
           IN  monthly.total = (IF rows = {} THEN {0} ELSE {SumAmounts(rows)})

\* C15: every summary calculate_total_revenue produces, from the query or
\* from the except branch, comes back from json.loads(json.dumps(..)) equal
\* in every field, its total the same decimal text; so what is read from
\* the cache is the summary that was written.
C15_JsonRoundTrip ==
    /\ \A r \in Requests :
          result[r] # None =>
              /\ json_loads(json_dumps(result[r])) = result[r]
              /\ DOMAIN json_loads(json_dumps(result[r])) =
                    {"property_id", "tenant_id", "total", "currency", "count"}
              /\ json_loads(json_dumps(result[r])).total = result[r].total
              /\ json_loads(json_dumps(result[r])).count = result[r].count
    /\ \A r \in Requests :
          (Returned(r) /\ path[r] = "hit") =>
              ret[r] = lastWrite[cache_key[r]].result

\* the summary with total "1000.00" and count 2 was computed, written and
\* then read back from the cache
C15_Witness ==
    \E r \in Requests :
        /\ Returned(r)
        /\ path[r] = "hit"
        /\ ret[r] = [property_id |-> "prop-001", tenant_id |-> "t1",
                     total |-> "1000.00", currency |-> "USD", count |-> 2]
        /\ cache[cache_key[r]].value =
              json_dumps([property_id |-> "prop-001", tenant_id |-> "t1",
                          total |-> "1000.00", currency |-> "USD", count |-> 2])

\* C18: the cache key is injective on (tenant id, property id) pairs of
\* arbitrary strings: two calls in flight for different pairs never hold
\* the same cache key.
C18_CacheKeyInjective ==
    \A r1, r2 \in Requests :
        ( /\ pc[r1] # "idle"
          /\ pc[r2] # "idle"
          /\ <<tenant_id[r1], property_id[r1]>> # <<tenant_id[r2], property_id[r2]>> )
        => cache_key[r1] # cache_key[r2]

\* the placeholder of the except branch for the property ids of the model:
\* prop-001 is in mock_data, p:prop-001 is not
Placeholder(P, T) ==
    [property_id |-> P, tenant_id |-> T,
     total |-> IF P = "prop-001" THEN "1000.00" ELSE "0.00",
     currency |-> "USD",
     count |-> IF P = "prop-001" THEN 3 ELSE 0]

\* C19: when calculate_total_revenue hits a data fault during a miss it
\* ends without an error and returns the placeholder of the property id
\* with the tenant_id of the request; get_revenue_summary stores it under
\* the key of the request for 300 seconds and returns it, and a request
\* that finds it under its key returns it without an aggregation.
C19_PlaceholderCached ==
    /\ [][\A r \in Requests :
            (pc[r] = "calc" /\ dbFault'[r]) =>
                /\ pc'[r] = "setex"
                /\ error'[r] = ""
                /\ result'[r] = Placeholder(property_id[r], tenant_id[r])]_vars
    /\ [][\A r \in Requests :
            (pc[r] = "setex" /\ pc'[r] = "returned" /\ dbFault[r]) =>
                /\ cache'[cache_key[r]] =
                      [value |-> json_dumps(Placeholder(property_id[r], tenant_id[r])),
                       expires_at |-> now + 300]
                /\ ret'[r] = Placeholder(property_id[r], tenant_id[r])]_vars
    /\ [][\A r \in Requests :
            ( /\ GetAnswered(r)
              /\ cache[cache_key'[r]] # None
              /\ now < cache[cache_key'[r]].expires_at
              /\ cache[cache_key'[r]].value =
                    json_dumps(Placeholder(property_id'[r], tenant_id'[r])) )
            => /\ pc'[r] = "returned"
               /\ ret'[r] = Placeholder(property_id'[r], tenant_id'[r])
               /\ calls'[r] = 0
               /\ cache' = cache]_vars

\* a request gets the placeholder of prop-001 from the cache, less than
\* 300 seconds after it was stored, although another request made after
\* the store and before this one had its query answered by the database
C19_Witness ==
    \E r, q \in Requests :
        /\ Returned(r)
        /\ path[r] = "hit"
        /\ calls[r] = 0
        /\ ret[r] = [property_id |-> "prop-001", tenant_id |-> "t1",
                     total |-> "1000.00", currency |-> "USD", count |-> 3]
        /\ ret[r] # QueryResult(reservations, "prop-001", "t1")
        /\ lastWrite[cache_key[r]].result = ret[r]
        /\ startedAt[r] < lastWrite[cache_key[r]].at + 300
        /\ q \in after[r]
        /\ path[q] = "miss"
        /\ ~dbFault[q]
        /\ calls[q] = 1
        /\ startedAt[q] > lastWrite[cache_key[r]].at

\* the key a step of request r works under
KeyOf(r) == IF pc[r] = "idle" THEN cache_key'[r] ELSE cache_key[r]

\* C20: a step of a call get_revenue_summary(P, T) leaves every cache
\* entry under a key other than that of (T, P) as it was, value and expiry
\* time; only its setex changes the entry under its own key; no step of a
\* call changes the reservation ledger or the clock.
C20_Frame ==
    [][\A r \in Requests :
        pc'[r] # pc[r] =>
            /\ reservations' = reservations
            /\ now' = now
            /\ \A k \in AllKeys : k # KeyOf(r) => cache'[k] = cache[k]
            /\ ~(pc[r] = "setex" /\ pc'[r] = "returned") => cache' = cache
            /\ \A k \in AllKeys : k # KeyOf(r) => lastWrite'[k] = lastWrite[k]]_vars

\* a request has written its entry while an older entry under another key
\* is still there with the expiry time it was given
C20_Witness ==
    \E r \in Requests, k \in AllKeys :
        /\ Returned(r)
        /\ path[r] = "miss"
        /\ writes[r] = 1
        /\ k # cache_key[r]
        /\ cache[k] # None
        /\ cache[cache_key[r]] # None
        /\ lastWrite[k].at < lastWrite[cache_key[r]].at
        /\ cache[k].expires_at = lastWrite[k].at + 300
        /\ cache[k].value = json_dumps(lastWrite[k].result)
        /\ reservations # {}

=============================================================================
